---- MODULE Spec2Model ----
(***************************************************************************)
(* Balance and settlement engine of ExpenseTracker.                        *)
(*                                                                         *)
(* services.SettlementService (balances, greedy reduction, settlement      *)
(* lifecycle) and the ledger operations of the controllers that feed it.   *)
(*                                                                         *)
(* Decimals are integers counting units of 10^-DivisionPrecision, the      *)
(* step to which decimal.Div rounds its quotient.                          *)
(***************************************************************************)
EXTENDS Integers, Sequences, FiniteSets, TLC

\* ------------------------------------------------------------------------
\* Bounds of the model
\* ------------------------------------------------------------------------

\* digits decimal.Div keeps after the decimal point
DivisionPrecision == 2

\* largest |netBalance| (in whole currency units) of a drawn balance list
MaxNet == 2

\* rows of the contributions table
MaxContributions == 1

\* rows of the expenses table
MaxExpenses == 1

\* largest settlement id the store hands out
MaxSettlementID == 4

\* calls one concurrent request process makes
MaxCalls == 1

\* settlements completed in one behaviour of the settlement lifecycle
MaxCompletions == 2

\* rows in the settlements table when a custom settlement is requested
MaxRows == 1

\* participants of one splitter run
MaxShares == 3

\* websocket connections opened to the event
MaxConns == 2

\* messages a client sends over one connection
MaxMessages == 1

Scale == 10 ^ DivisionPrecision

Users == {"A", "B", "C"}

\* the users of a drawn balance list, in balance-list order
ReduceUsers == <<"A", "B", "C", "D">>

\* amounts a request may carry (whole currency units)
AmountUnits == {1, 90}

Amounts == {n * Scale : n \in AmountUnits}

\* a range loop has one variable for all its iterations (Go before 1.22) or
\* a fresh one for each
LoopVarSemantics == {"shared", "perIteration"}

VARIABLES
    participants,   \* participations of the event, in insertion order
    contributions,  \* rows of contributions
    expenses,       \* rows of expenses, each with its expense_shares
    totalExpenses,  \* events.total_expenses of the event
    settlements,    \* rows of settlements
    nextID,         \* next primary key of settlements
    now,            \* the database clock (DB.NowFunc)
    sortTies,       \* how the build's sort.Slice orders equal keys
    loopVar,        \* whether the build's range loops share their variable
    hist,           \* outcome of the most recent service calls
    balances,       \* reducer run: the balance list given
    debtors,        \* reducer run: local slice debtors
    creditors,      \* reducer run: local slice creditors
    out,            \* reducer run: local slice settlements
    rpc,            \* reducer run: position in GenerateOptimalSettlements
    procs,          \* concurrent requests: position and locals of each
    readObs,        \* concurrent requests: what the last read returned
    splitReq,       \* splitter run: the expense and its request participants
    splitRes,       \* splitter run: what calculateExpenseShares returned
    notifications,  \* messages the handlers gave the WebSocketController
    connections,    \* wsc.connections[eventID]: the event's inner map, or nil
    eventMaps,      \* the inner maps (user -> connection) ever allocated
    mu,             \* wsc.mu: its writer and its readers
    handlers        \* HandleWebSocket goroutines, one per connection

ledgerVars == <<participants, contributions, expenses, totalExpenses>>
storeVars == <<settlements, nextID>>
buildVars == <<sortTies, loopVar>>
reduceVars == <<balances, debtors, creditors, out, rpc>>
concVars == <<procs, readObs>>
splitVars == <<splitReq, splitRes>>
wsVars == <<notifications, connections, eventMaps, mu, handlers>>
vars == <<participants, contributions, expenses, totalExpenses, settlements, nextID, now,
          sortTies, loopVar, hist, balances, debtors, creditors, out, rpc, procs, readObs,
          splitReq, splitRes, notifications, connections, eventMaps, mu, handlers>>

\* ------------------------------------------------------------------------
\* Sequences and decimals
\* ------------------------------------------------------------------------

Range(s) == {s[i] : i \in 1..Len(s)}

RECURSIVE SumSeq(_)
SumSeq(s) == IF s = <<>> THEN 0 ELSE s[1] + SumSeq(Tail(s))

Reverse(s) == [i \in 1..Len(s) |-> s[Len(s) + 1 - i]]

AbsInt(n) == IF n < 0 THEN -n ELSE n

MinInt(a, b) == IF a <= b THEN a ELSE b

\* n/d rounded to the nearest integer, ties away from zero (d # 0)
RoundDiv(n, d) ==
    IF (n >= 0) = (d > 0) THEN (2 * AbsInt(n) + AbsInt(d)) \div (2 * AbsInt(d))
    ELSE -((2 * AbsInt(n) + AbsInt(d)) \div (2 * AbsInt(d)))

\* a quotient cut to whole units
DivWholeUnits(a, b) == (a \div b) * Scale

\* decimal.Div: the quotient rounded to DivisionPrecision digits (a divisor
\* of whole units is reduced first, which keeps the numbers small)
Div(a, b) ==
    IF b % Scale = 0 THEN RoundDiv(a, b \div Scale) ELSE RoundDiv(a * Scale, b)

\* decimal.NewFromInt
NewFromInt(n) == n * Scale

\* decimal.Mul: the exact product (one factor is always a whole number of
\* units here, so the product has no digit past DivisionPrecision)
Mul(a, b) ==
    IF a % Scale = 0 THEN (a \div Scale) * b
    ELSE IF b % Scale = 0 THEN a * (b \div Scale)
    ELSE (a * b) \div Scale

\* ------------------------------------------------------------------------
\* SettlementService.CalculateUserBalances
\* ------------------------------------------------------------------------

\* a sum over the expenses whatever their status
CountedWhatever(e) == TRUE

\* status IN ("approved", "pending")
Counted(e) == e.status \in {"approved", "pending"}

\* SUM(amount) of the contributions of user u
TotalContributions(contribs, u) ==
    SumSeq([i \in 1..Len(contribs) |->
        IF contribs[i].user = u THEN contribs[i].amount ELSE 0])

\* the sum of the approved expenses of u alone
TotalExpensesApproved(exps, u) ==
    SumSeq([i \in 1..Len(exps) |->
        IF exps[i].submittedBy = u /\ exps[i].status = "approved"
        THEN exps[i].amount ELSE 0])

\* SUM(amount) of the counted expenses user u submitted
TotalExpenses(exps, u) ==
    SumSeq([i \in 1..Len(exps) |->
        IF exps[i].submittedBy = u /\ Counted(exps[i]) THEN exps[i].amount ELSE 0])

ShareOf(e, u) ==
    SumSeq([j \in 1..Len(e.shares) |->
        IF e.shares[j].user = u THEN e.shares[j].amount ELSE 0])

\* SUM(expense_shares.amount) of user u joined to the counted expenses
TotalEventExpenses(exps, u) ==
    SumSeq([i \in 1..Len(exps) |->
        IF Counted(exps[i]) THEN ShareOf(exps[i], u) ELSE 0])

UserBalance(u, contributed, spent, net) ==
    [user |-> u, contributed |-> contributed, spent |-> spent, net |-> net,
     owes |-> IF net < 0 THEN AbsInt(net) ELSE 0,
     owed |-> IF net > 0 THEN net ELSE 0]

\* what the settlements S pay to user u, less what u pays in them
RECURSIVE SettledNet(_, _)
SettledNet(S, u) ==
    IF S = {} THEN 0
    ELSE LET r == CHOOSE x \in S : TRUE
             d == IF r.to = u THEN r.amount
                  ELSE IF r.from = u THEN -r.amount
                  ELSE 0
         IN d + SettledNet(S \ {r}, u)

\* balances from which the settlements on record are taken off
CalculateUserBalancesSettled(parts, contribs, exps) ==
    [i \in 1..Len(parts) |->
        LET u == parts[i]
            c == TotalContributions(contribs, u)
            s == TotalExpenses(exps, u)
            t == TotalEventExpenses(exps, u)
        IN UserBalance(u, c, s, c + s - t - SettledNet(settlements, u))]

CalculateUserBalances(parts, contribs, exps) ==
    [i \in 1..Len(parts) |->
        LET u == parts[i]
            c == TotalContributions(contribs, u)
            s == TotalExpenses(exps, u)
            t == TotalEventExpenses(exps, u)
        IN UserBalance(u, c, s, c + s - t)]

\* ------------------------------------------------------------------------
\* SettlementService.GenerateOptimalSettlements
\* ------------------------------------------------------------------------

RECURSIVE SelectSeqIdx(_, _, _)
SelectSeqIdx(s, keep, i) ==
    IF i > Len(s) THEN <<>>
    ELSE IF keep[i] THEN <<s[i]>> \o SelectSeqIdx(s, keep, i + 1)
    ELSE SelectSeqIdx(s, keep, i + 1)

Debtors(bals) ==
    SelectSeqIdx(bals, [i \in 1..Len(bals) |-> bals[i].net < 0], 1)

Creditors(bals) ==
    SelectSeqIdx(bals, [i \in 1..Len(bals) |-> bals[i].net > 0], 1)

\* insert x into the descending sequence s behind every element that is not
\* smaller (key gives the sort key)
RECURSIVE InsertDesc(_, _, _)
InsertDesc(s, x, key) ==
    IF s = <<>> THEN <<x>>
    ELSE IF s[1][key] >= x[key] THEN <<s[1]>> \o InsertDesc(Tail(s), x, key)
    ELSE <<x>> \o s

RECURSIVE StableDesc(_, _)
StableDesc(s, key) ==
    IF s = <<>> THEN <<>>
    ELSE InsertDesc(StableDesc(SubSeq(s, 1, Len(s) - 1), key), s[Len(s)], key)

\* sort.Slice with less(i, j) = s[i].key > s[j].key: descending by key; the
\* order of equal keys is whatever the build's sort produces (ties)
SortSlice(s, key, ties) ==
    IF ties = "stable" THEN StableDesc(s, key)
    ELSE StableDesc(Reverse(s), key)

\* one iteration that advances both lists whatever remains of either party
GreedyStepAdvanceBoth(st) ==
    LET debtor == st.d[1]
        creditor == st.c[1]
        settlementAmount == MinInt(debtor.owes, creditor.owed)
    IN [d |-> Tail(st.d),
        c |-> Tail(st.c),
        o |-> Append(st.o, [from |-> debtor.user, to |-> creditor.user,
                            amount |-> settlementAmount])]

\* one iteration of the greedy loop over the record [d, c, o]
GreedyStep(st) ==
    LET debtor == st.d[1]
        creditor == st.c[1]
        settlementAmount == MinInt(debtor.owes, creditor.owed)
        d1 == [st.d EXCEPT ![1].owes = @ - settlementAmount]
        c1 == [st.c EXCEPT ![1].owed = @ - settlementAmount]
    IN [d |-> IF d1[1].owes = 0 THEN Tail(d1) ELSE d1,
        c |-> IF c1[1].owed = 0 THEN Tail(c1) ELSE c1,
        o |-> Append(st.o, [from |-> debtor.user, to |-> creditor.user,
                            amount |-> settlementAmount])]

LoopCond(st) == Len(st.d) > 0 /\ Len(st.c) > 0

\* the greedy loop, cut after fuel iterations
RECURSIVE GreedyLoop(_, _)
GreedyLoop(st, fuel) ==
    IF LoopCond(st) /\ fuel > 0 THEN GreedyLoop(GreedyStep(st), fuel - 1) ELSE st

ReduceStart(bals, ties) ==
    [d |-> SortSlice(Debtors(bals), "owes", ties),
     c |-> SortSlice(Creditors(bals), "owed", ties),
     o |-> <<>>]

\* iterations after which the loop over bals has certainly ended
LoopFuel(bals) == 2 * Len(bals) + 1

\* the final [d, c, o] of the reduction of bals
ReduceFinal(bals, ties) == GreedyLoop(ReduceStart(bals, ties), LoopFuel(bals))

\* the drafts GenerateOptimalSettlements returns for the balance list bals
GenerateOptimalSettlements(bals, ties) == ReduceFinal(bals, ties).o

\* ------------------------------------------------------------------------
\* The settlements table
\* ------------------------------------------------------------------------

Pending(S) == {r \in S : r.status = "pending"}

\* a regeneration that leaves the earlier pending rows in place
DeletePendingNone(S) == S

\* a delete without the status condition
DeleteWhatever(S) == {}

\* DB.Where("event_id = ? AND status = ?", eventID, "pending").Delete(...)
DeletePending(S) == S \ Pending(S)

\* settled_at of a settlement not completed (NULL)
NoTime == 0

\* a create that replaces the payer's pending rows
CreateRowUpsert(S, id, d) ==
    {r \in S : ~(r.from = d.from /\ r.status = "pending")}
        \cup {[id |-> id, from |-> d.from, to |-> d.to, amount |-> d.amount,
                status |-> "pending", ref |-> "", settledAt |-> NoTime]}

\* DB.Create(&settlement) of a draft under the primary key id
CreateRow(S, id, d) ==
    S \cup {[id |-> id, from |-> d.from, to |-> d.to, amount |-> d.amount,
             status |-> "pending", ref |-> "", settledAt |-> NoTime]}

\* the first n drafts inserted one after the other, keys from id on
RECURSIVE InsertDrafts(_, _, _, _)
InsertDrafts(S, drafts, id, n) ==
    IF n = 0 THEN S
    ELSE CreateRow(InsertDrafts(S, drafts, id, n - 1), id + n - 1, drafts[n])

\* a row or draft without its key and status
Triple(r) == <<r.from, r.to, r.amount>>

\* how often each (from, to, amount) occurs among the rows R
Instructions(R) ==
    [t \in {Triple(r) : r \in R} |-> Cardinality({r \in R : Triple(r) = t})]

\* the same for a list of drafts
DraftInstructions(ds) ==
    [t \in {Triple(ds[i]) : i \in 1..Len(ds)} |->
        Cardinality({i \in 1..Len(ds) : Triple(ds[i]) = t})]

\* the drafts the service generates from the ledger as it stands
Drafts ==
    GenerateOptimalSettlements(
        CalculateUserBalances(participants, contributions, expenses), sortTies)

\* ------------------------------------------------------------------------
\* Record of the latest service call (what the caller saw)
\* ------------------------------------------------------------------------

\* the arguments of a call other than CreateCustomSettlement
NoRequest == [from |-> "", to |-> "", amount |-> 0]

NoCall ==
    [op |-> "none", ok |-> FALSE, at |-> "none", pre |-> {}, result |-> {},
     again |-> FALSE, first |-> {}, id |-> 0, err |-> "", req |-> NoRequest]

\* a CreateSettlements call that returned: at is where it failed, pre are
\* the pending rows before it, result the rows it returned; again says the
\* call before it was a successful CreateSettlements too, whose result was
\* first
GenerateCall(at, pre, result) ==
    [op |-> "generate", ok |-> at = "none", at |-> at, pre |-> pre,
     result |-> result,
     again |-> hist.op = "generate" /\ hist.ok,
     first |-> IF hist.op = "generate" /\ hist.ok THEN hist.result ELSE {},
     id |-> 0, err |-> "", req |-> NoRequest]

\* ------------------------------------------------------------------------
\* Ledger operations (controllers)
\* ------------------------------------------------------------------------

IsParticipant(u) == u \in Range(participants)

\* Participation.CanApproveExpenses: the creator is the owner, everybody
\* else joined as "participant"
CanApproveExpenses(parts, u) == Len(parts) > 0 /\ parts[1] = u

\* EventController.JoinEvent
JoinEvent(u) ==
    /\ ~IsParticipant(u)
    /\ participants' = Append(participants, u)
    /\ hist' = NoCall
    /\ UNCHANGED <<contributions, expenses, totalExpenses, storeVars, buildVars, now, reduceVars, concVars, splitVars, wsVars>>

\* EventController.AddContribution
AddContribution(u, amount) ==
    /\ IsParticipant(u)
    /\ amount > 0
    /\ Len(contributions) < MaxContributions
    /\ contributions' = Append(contributions, [user |-> u, amount |-> amount])
    /\ hist' = NoCall
    /\ UNCHANGED <<participants, expenses, totalExpenses, storeVars, buildVars, now, reduceVars, concVars, splitVars, wsVars>>

\* an ExpenseParticipant field that is absent from the request ("")
Missing == -1

\* an ExpenseParticipant of the request body
ExpenseParticipant(user, amount, percentage, weight) ==
    [user |-> user, amount |-> amount, percentage |-> percentage, weight |-> weight]

\* request participant lists: none (all participants), or some users, each
\* with or without an explicit amount
UserLists == {<<>>, <<"B">>, <<"B", "C">>, <<"A", "B", "C">>}

ParticipantLists ==
    UNION {{[i \in 1..Len(us) |-> ExpenseParticipant(us[i], f[i], Missing, Missing)] :
              f \in [1..Len(us) -> Amounts \cup {Missing}]} : us \in UserLists}

SplitTypes == {"equal", "custom"}

\* models.ExpenseShare
ExpenseShare(user, amount, percentage) ==
    [user |-> user, amount |-> amount, percentage |-> percentage]

\* ExpenseController.calculateEqualSplit; the percentage is the float
\* 100.0/n as a decimal, to the digits the model keeps
calculateEqualSplit(amount, parts) ==
    IF Len(parts) = 0 THEN [err |-> TRUE, shares |-> <<>>]
    ELSE [err |-> FALSE,
          shares |-> [i \in 1..Len(parts) |->
              ExpenseShare(parts[i].user,
                           Div(amount, NewFromInt(Len(parts))),
                           Div(NewFromInt(100), NewFromInt(Len(parts))))]]

\* ExpenseController.calculatePercentageSplit
calculatePercentageSplit(amount, parts) ==
    IF \E i \in 1..Len(parts) : parts[i].percentage = Missing
        THEN [err |-> TRUE, shares |-> <<>>]
    ELSE IF SumSeq([i \in 1..Len(parts) |-> parts[i].percentage]) # NewFromInt(100)
        THEN [err |-> TRUE, shares |-> <<>>]
    ELSE [err |-> FALSE,
          shares |-> [i \in 1..Len(parts) |->
              ExpenseShare(parts[i].user,
                           Div(Mul(amount, parts[i].percentage), NewFromInt(100)),
                           parts[i].percentage)]]

\* ExpenseController.calculateCustomSplit
calculateCustomSplit(amount, parts) ==
    IF \E i \in 1..Len(parts) : parts[i].amount = Missing
        THEN [err |-> TRUE, shares |-> <<>>]
    ELSE IF SumSeq([i \in 1..Len(parts) |-> parts[i].amount]) # amount
        THEN [err |-> TRUE, shares |-> <<>>]
    ELSE [err |-> FALSE,
          shares |-> [i \in 1..Len(parts) |->
              ExpenseShare(parts[i].user,
                           parts[i].amount,
                           Mul(Div(parts[i].amount, amount), NewFromInt(100)))]]

\* the total the weighted splitter divides by
TotalWeight(parts) == SumSeq([i \in 1..Len(parts) |-> parts[i].weight])

\* ExpenseController.calculateWeightedSplit; a total weight of zero makes
\* decimal.Div panic and the request fail
calculateWeightedSplit(amount, parts) ==
    IF \E i \in 1..Len(parts) : parts[i].weight = Missing
        THEN [err |-> TRUE, shares |-> <<>>]
    ELSE IF TotalWeight(parts) = 0
        THEN [err |-> TRUE, shares |-> <<>>]
    ELSE [err |-> FALSE,
          shares |-> [i \in 1..Len(parts) |->
              ExpenseShare(parts[i].user,
                           Div(Mul(amount, parts[i].weight), TotalWeight(parts)),
                           Mul(Div(parts[i].weight, TotalWeight(parts)), NewFromInt(100)))]]

\* ExpenseController.calculateExpenseShares for an event whose participants
\* are eventParts
calculateExpenseShares(amount, splitType, reqParts, eventParts) ==
    LET parts == IF Len(reqParts) = 0
                 THEN [i \in 1..Len(eventParts) |->
                          ExpenseParticipant(eventParts[i], Missing, Missing, Missing)]
                 ELSE reqParts
    IN IF splitType = "equal" THEN calculateEqualSplit(amount, parts)
       ELSE IF splitType = "percentage" THEN calculatePercentageSplit(amount, parts)
       ELSE IF splitType = "custom" THEN calculateCustomSplit(amount, parts)
       ELSE IF splitType = "weighted" THEN calculateWeightedSplit(amount, parts)
       ELSE [err |-> TRUE, shares |-> <<>>]

\* the status CreateExpense gives a new expense; the event of the model was
\* created with require_approval and no auto-approval limit
InitialStatus(parts, u) ==
    IF CanApproveExpenses(parts, u) THEN "approved" ELSE "pending"

\* events.total_expenses of an event whose expenses are exps: the handlers
\* add an expense's amount when they store it as approved
ApprovedTotal(exps) ==
    SumSeq([i \in 1..Len(exps) |->
               IF exps[i].status = "approved" THEN exps[i].amount ELSE 0])

\* the expense row (with its shares) CreateExpense persists
ExpenseRow(u, amount, splitType, shares, eventParts) ==
    [submittedBy |-> u, amount |-> amount,
     status |-> InitialStatus(eventParts, u), splitType |-> splitType,
     shares |-> shares]

\* where the storage lets CreateExpense's transaction down: nowhere, at the
\* insert of the expense, at the k-th share insert (of n), at the update of
\* the event's totals, at the commit
ExpenseFailPoints(n) ==
    {[at |-> a, k |-> 0] : a \in {"none", "expense", "totals", "commit"}}
        \cup {[at |-> "share", k |-> k] : k \in 1..n}

\* the rows a transaction works on
Begin == [expenses |-> expenses, total |-> totalExpenses]

\* tx.Rollback keeps only what was stored before the transaction
RollbackKeepsWrites(before, work) == work

Rollback(before, work) == before

\* the transaction of CreateExpense for the request (amount, splitType) of
\* user u, for which the splitter returned r, with the storage failing at
\* fp: the error code answered ("" for 201) and the rows stored afterwards
CreateExpenseTx(u, amount, splitType, r, fp) ==
    LET before == Begin
        status == InitialStatus(participants, u)
        inserted(k) ==
            [before EXCEPT !.expenses = Append(@,
                ExpenseRow(u, amount, splitType, SubSeq(r.shares, 1, k), participants))]
        n == Len(r.shares)
        totalled == IF status = "approved"
                    THEN [inserted(n) EXCEPT !.total = @ + amount]
                    ELSE inserted(n)
    IN IF fp.at = "expense"
           THEN [code |-> "EXPENSE_CREATION_ERROR", db |-> Rollback(before, before)]
       ELSE IF r.err
           THEN [code |-> "SHARE_CALCULATION_ERROR", db |-> Rollback(before, inserted(0))]
       ELSE IF fp.at = "share"
           THEN [code |-> "SHARE_CREATION_ERROR", db |-> Rollback(before, inserted(fp.k - 1))]
       ELSE IF fp.at = "totals" /\ status = "approved"
           THEN [code |-> "UPDATE_ERROR", db |-> Rollback(before, inserted(n))]
       ELSE IF fp.at = "commit"
           THEN [code |-> "TRANSACTION_ERROR", db |-> Rollback(before, totalled)]
       ELSE [code |-> "", db |-> totalled]

\* ExpenseController.CreateExpense, the request of user u
CreateExpense(u) ==
    /\ IsParticipant(u)
    /\ Len(expenses) < MaxExpenses
    /\ \E amount \in Amounts, splitType \in SplitTypes, reqParts \in ParticipantLists :
       \E r \in {calculateExpenseShares(amount, splitType, reqParts, participants)} :
       \E fp \in ExpenseFailPoints(Len(r.shares)) :
       \E res \in {CreateExpenseTx(u, amount, splitType, r, fp)} :
         /\ expenses' = res.db.expenses
         /\ totalExpenses' = res.db.total
    /\ hist' = NoCall
    /\ UNCHANGED <<participants, contributions, storeVars, buildVars, now, reduceVars, concVars, splitVars, wsVars>>

\* ExpenseController.ReviewExpense
ReviewExpense(u, i, action) ==
    /\ i \in 1..Len(expenses)
    /\ CanApproveExpenses(participants, u)
    /\ expenses[i].status = "pending"
    /\ expenses' = [expenses EXCEPT ![i].status = action \o "d"]
    /\ totalExpenses' = IF action = "approve"
                        THEN totalExpenses + expenses[i].amount
                        ELSE totalExpenses
    /\ hist' = NoCall
    /\ UNCHANGED <<participants, contributions, storeVars, buildVars, now, reduceVars, concVars, splitVars, wsVars>>

\* ------------------------------------------------------------------------
\* SettlementService.CreateSettlements, one whole call
\* ------------------------------------------------------------------------

\* where the storage lets the call down: nowhere, at the balance read, at
\* the event lookup, at the k-th insert, at the final load
FailPoints(n) ==
    {[at |-> a, k |-> 0] : a \in {"none", "balances", "event", "load"}}
        \cup {[at |-> "insert", k |-> k] : k \in 1..n}

CreateSettlements ==
    \E drafts \in {Drafts} :
    LET pre == Pending(settlements)
        cleared == DeletePending(settlements)
        n == Len(drafts)
    IN /\ nextID + n - 1 <= MaxSettlementID
       /\ \E fp \in FailPoints(n) :
            IF fp.at \in {"balances", "event"}
            THEN /\ settlements' = cleared
                 /\ nextID' = nextID
                 /\ hist' = GenerateCall(fp.at, pre, {})
            ELSE IF fp.at = "insert"
            THEN /\ settlements' = InsertDrafts(cleared, drafts, nextID, fp.k - 1)
                 /\ nextID' = nextID + fp.k - 1
                 /\ hist' = GenerateCall(fp.at, pre, {})
            ELSE /\ settlements' = InsertDrafts(cleared, drafts, nextID, n)
                 /\ nextID' = nextID + n
                 /\ hist' = IF fp.at = "load"
                            THEN GenerateCall(fp.at, pre, {})
                            ELSE GenerateCall(fp.at, pre, Pending(settlements'))
       /\ UNCHANGED <<ledgerVars, buildVars, now, reduceVars, concVars, splitVars, wsVars>>

\* ------------------------------------------------------------------------
\* Custom settlements and completion
\* ------------------------------------------------------------------------

\* registered users: the participants-to-be and one who never joins
Accounts == Users \cup {"D"}

\* amounts a custom settlement request may carry
CustomAmounts == Amounts \cup {NewFromInt(0)}

\* the reference a completion request carries
PaymentReferences == {"r1"}

\* what the lookup loop of ValidateSettlement leaves in fromBalance or
\* toBalance for user u: nil (the empty set) when no balance is u's; else
\* the pointer &balance, which under a shared loop variable reads as the
\* last balance of the list once the loop is over
FoundBalance(bals, u, lv) ==
    IF \A i \in 1..Len(bals) : bals[i].user # u THEN {}
    ELSE IF lv = "shared" THEN {bals[Len(bals)]}
    ELSE {bals[i] : i \in {j \in 1..Len(bals) : bals[j].user = u}}

\* SettlementService.ValidateSettlement: "" for nil, else the error; bals
\* is what its call of CalculateUserBalances returns
ValidateSettlement(parts, bals, from, to, amount, lv) ==
    IF from \notin Range(parts)
    THEN "from user is not a participant in this event"
    ELSE IF to \notin Range(parts)
    THEN "to user is not a participant in this event"
    ELSE IF amount <= 0
    THEN "settlement amount must be positive"
    ELSE LET fb == FoundBalance(bals, from, lv)
             tb == FoundBalance(bals, to, lv)
         IN IF fb = {} \/ tb = {}
            THEN "unable to find user balances"
            ELSE LET fromBalance == CHOOSE x \in fb : TRUE
                     toBalance == CHOOSE x \in tb : TRUE
                 IN IF ~(fromBalance.net < 0)
                    THEN "from user does not owe money"
                    ELSE IF ~(toBalance.net > 0)
                    THEN "to user is not owed money"
                    ELSE IF amount > fromBalance.owes
                    THEN "settlement amount exceeds what from user owes"
                    ELSE IF amount > toBalance.owed
                    THEN "settlement amount exceeds what to user is owed"
                    ELSE ""

\* a call of CreateCustomSettlement or MarkSettlementCompleted that returned err
\* ("" for success) about the settlement id
ServiceCall(op, id, err) ==
    [op |-> op, ok |-> err = "", at |-> "none", pre |-> {}, result |-> {},
     again |-> FALSE, first |-> {}, id |-> id, err |-> err, req |-> NoRequest]

\* SettlementService.CreateCustomSettlement for the payer from
CreateCustomSettlement(from) ==
    /\ nextID <= MaxSettlementID
    /\ Cardinality(settlements) <= MaxRows
    /\ \E bals \in {CalculateUserBalances(participants, contributions, expenses)} :
       \E to \in Accounts, amount \in CustomAmounts :
       \E err \in {ValidateSettlement(participants, bals, from, to, amount,
                                      loopVar)} :
         /\ hist' = [ServiceCall("custom", IF err = "" THEN nextID ELSE 0, err)
                       EXCEPT !.req = [from |-> from, to |-> to,
                                       amount |-> amount]]
         /\ IF err # ""
            THEN UNCHANGED storeVars
            ELSE /\ settlements' = CreateRow(settlements, nextID,
                                      [from |-> from, to |-> to,
                                       amount |-> amount])
                 /\ nextID' = nextID + 1
    /\ UNCHANGED <<ledgerVars, buildVars, now, reduceVars, concVars, splitVars, wsVars>>

\* the rows of S with primary key id
First(S, id) == {r \in S : r.id = id}

\* a completion that skips the status check
NotPendingNever(r) == FALSE

\* MarkSettlementCompleted line 226
NotPending(r) == r.status # "pending"

\* Model(&settlement).Updates(updates): the row of S with r's primary key
\* becomes completed, with the reference ref and the time t
Updates(S, r, ref, t) ==
    {IF x.id = r.id
     THEN [x EXCEPT !.status = "completed", !.ref = ref, !.settledAt = t]
     ELSE x : x \in S}

\* SettlementService.MarkSettlementCompleted at time t: the error ("" for
\* nil) and the rows afterwards
MarkSettlementCompleted(S, id, ref, t) ==
    IF First(S, id) = {}
    THEN [err |-> "settlement not found", rows |-> S]
    ELSE LET settlement == CHOOSE r \in First(S, id) : TRUE
         IN IF NotPending(settlement)
            THEN [err |-> "settlement is not pending", rows |-> S]
            ELSE [err |-> "", rows |-> Updates(S, settlement, ref, t)]

\* one call of SettlementService.MarkSettlementCompleted
CompleteCall(id, ref) ==
    /\ \E r \in {MarkSettlementCompleted(settlements, id, ref, now)} :
         /\ r.err = "" => now <= MaxCompletions
         /\ settlements' = r.rows
         /\ now' = IF r.err = "" THEN now + 1 ELSE now
         /\ hist' = ServiceCall("complete", id, r.err)
    /\ UNCHANGED <<ledgerVars, nextID, buildVars, reduceVars, concVars, splitVars, wsVars>>

\* the expenses without the i-th
RemoveAt(exps, i) ==
    [j \in 1..(Len(exps) - 1) |-> IF j < i THEN exps[j] ELSE exps[j + 1]]

\* ExpenseController.UpdateExpense, the request of user u for the i-th
\* expense; amount is Missing when the request carries none
UpdateExpense(u, i, amount) ==
    /\ i \in 1..Len(expenses)
    /\ expenses[i].submittedBy = u
    /\ expenses[i].status = "pending"
    /\ amount = Missing \/ amount > 0
    /\ expenses' = IF amount = Missing THEN expenses
                   ELSE [expenses EXCEPT ![i].amount = amount]
    /\ hist' = ServiceCall("update", i, "")
    /\ UNCHANGED <<participants, contributions, totalExpenses, storeVars, buildVars, now, reduceVars, concVars, splitVars, wsVars>>

\* ExpenseController.DeleteExpense, the request of user u for the i-th
\* expense: the shares and the expense go in one transaction
DeleteExpense(u, i) ==
    /\ i \in 1..Len(expenses)
    /\ expenses[i].submittedBy = u \/ CanApproveExpenses(participants, u)
    /\ expenses[i].status = "pending"
    /\ expenses' = RemoveAt(expenses, i)
    /\ hist' = ServiceCall("delete", i, "")
    /\ UNCHANGED <<participants, contributions, totalExpenses, storeVars, buildVars, now, reduceVars, concVars, splitVars, wsVars>>

\* ------------------------------------------------------------------------
\* Specifications
\* ------------------------------------------------------------------------

NoProcs == [p \in {} |-> 0]

NoRead == [seen |-> FALSE, rows |-> {}, during |-> FALSE, pre |-> {}]

\* ------------------------------------------------------------------------
\* WebSocketController: the registry of one event
\* ------------------------------------------------------------------------

Conns == 1..MaxConns

\* a nil map, a nil connection, nobody
Nil == 0

Unlocked == [writer |-> Nil, readers |-> {}]

\* a goroutine that has not been started
NoHandler ==
    [pc |-> "none", user |-> "", open |-> FALSE, failed |-> FALSE, ref |-> Nil,
     visited |-> {}, after |-> "none", rmUser |-> "", ret |-> "none", msgs |-> 0]

\* no websocket client, nothing sent
NoSockets ==
    /\ notifications = <<>>
    /\ connections = Nil
    /\ eventMaps = [m \in Conns |-> {}]
    /\ mu = Unlocked
    /\ handlers = [c \in Conns |-> NoHandler]

\* the entries of an inner map are [user, conn] records, one per user
Lookup(m, u) == {e \in m : e.user = u}

\* m[u] = c
Put(m, u, c) == (m \ Lookup(m, u)) \cup {[user |-> u, conn |-> c]}

\* delete(m, u)
Delete(m, u) == m \ Lookup(m, u)

wsFrame == <<ledgerVars, storeVars, buildVars, now, hist, reduceVars, concVars,
             splitVars, notifications>>

\* addConnection line 176: wsc.mu.Lock()
AddLock(c) ==
    /\ handlers[c].pc = "addLock"
    /\ mu = Unlocked
    /\ mu' = [mu EXCEPT !.writer = c]
    /\ handlers' = [handlers EXCEPT ![c].pc = "addWrite"]
    /\ UNCHANGED <<wsFrame, connections, eventMaps>>

\* addConnection lines 179-183: allocate the inner map if there is none (it
\* is named after the connection that allocates it) and store the entry
AddWrite(c) ==
    /\ handlers[c].pc = "addWrite"
    /\ \E m \in {IF connections = Nil THEN c ELSE connections} :
         /\ connections' = m
         /\ eventMaps' = [eventMaps EXCEPT ![m] = Put(@, handlers[c].user, c)]
    /\ handlers' = [handlers EXCEPT ![c].pc = "addUnlock"]
    /\ UNCHANGED <<wsFrame, mu>>

\* addConnection returns (the deferred Unlock); HandleWebSocket sends the
\* welcome message, ignoring the result, and calls BroadcastToEvent
AddUnlock(c) ==
    /\ handlers[c].pc = "addUnlock"
    /\ mu' = Unlocked
    /\ handlers' = [handlers EXCEPT ![c].pc = "broadcast", ![c].after = "read"]
    /\ UNCHANGED <<wsFrame, connections, eventMaps>>

\* BroadcastToEvent lines 210-216: RLock, read the inner map's reference,
\* RUnlock, return if it is nil
BroadcastRead(c) ==
    /\ handlers[c].pc = "broadcast"
    /\ mu.writer = Nil
    /\ handlers' = [handlers EXCEPT
                       ![c].ref = connections,
                       ![c].visited = {},
                       ![c].pc = IF connections = Nil THEN handlers[c].after ELSE "iter"]
    /\ UNCHANGED <<wsFrame, connections, eventMaps, mu>>

\* BroadcastToEvent lines 223-233, one round of the range loop over the
\* inner map read before: the sender is skipped, a write to a connection
\* whose client is gone fails and has the entry removed
BroadcastIterate(c) ==
    /\ handlers[c].pc = "iter"
    /\ \E todo \in {{e \in eventMaps[handlers[c].ref] : e.user \notin handlers[c].visited}} :
         IF todo = {}
         THEN handlers' = [handlers EXCEPT ![c].pc = handlers[c].after]
         ELSE \E e \in todo :
                IF e.user = handlers[c].user \/ handlers[e.conn].open
                THEN handlers' = [handlers EXCEPT ![c].visited = @ \cup {e.user}]
                ELSE handlers' = [handlers EXCEPT
                                    ![c].visited = @ \cup {e.user},
                                    ![c].rmUser = e.user,
                                    ![c].ret = "iter",
                                    ![c].pc = "rmLock",
                                    ![e.conn].failed = TRUE]
    /\ UNCHANGED <<wsFrame, connections, eventMaps, mu>>

\* removeConnection line 189: wsc.mu.Lock()
RemoveLock(c) ==
    /\ handlers[c].pc = "rmLock"
    /\ mu = Unlocked
    /\ mu' = [mu EXCEPT !.writer = c]
    /\ handlers' = [handlers EXCEPT ![c].pc = "rmDelete"]
    /\ UNCHANGED <<wsFrame, connections, eventMaps>>

\* removeConnection lines 192-197: delete the user's entry, whatever
\* connection it holds, and the inner map once it is empty
RemoveDelete(c) ==
    /\ handlers[c].pc = "rmDelete"
    /\ IF connections = Nil
       THEN UNCHANGED <<connections, eventMaps>>
       ELSE \E m \in {Delete(eventMaps[connections], handlers[c].rmUser)} :
              /\ eventMaps' = [eventMaps EXCEPT ![connections] = m]
              /\ connections' = IF m = {} THEN Nil ELSE connections
    /\ handlers' = [handlers EXCEPT ![c].pc = "rmUnlock"]
    /\ UNCHANGED <<wsFrame, mu>>

\* removeConnection returns (the deferred Unlock)
RemoveUnlock(c) ==
    /\ handlers[c].pc = "rmUnlock"
    /\ mu' = Unlocked
    /\ handlers' = [handlers EXCEPT ![c].pc = handlers[c].ret]
    /\ UNCHANGED <<wsFrame, connections, eventMaps>>

\* the kinds of message a client sends
ClientMessages == {"ping", "typing"}

\* HandleWebSocket lines 160-171: conn.ReadMessage returns a message, which
\* handleIncomingMessage dispatches, or an error once the client is gone,
\* which ends the loop and runs the deferred cleanup
ReadMessage(c) ==
    /\ handlers[c].pc = "read"
    /\ IF handlers[c].open
       THEN /\ handlers[c].msgs < MaxMessages
            /\ \E t \in ClientMessages :
                 handlers' = [handlers EXCEPT
                                ![c].msgs = @ + 1,
                                ![c].after = "read",
                                ![c].pc = IF t = "ping" THEN "pong" ELSE "broadcast"]
       ELSE handlers' = [handlers EXCEPT
                           ![c].rmUser = handlers[c].user,
                           ![c].ret = "close",
                           ![c].pc = "rmLock"]
    /\ UNCHANGED <<wsFrame, connections, eventMaps, mu>>

\* handleIncomingMessage lines 277-279: look the sender's entry up, without
\* the lock, and send the pong to the connection found, ignoring the result
Pong(c) ==
    /\ handlers[c].pc = "pong"
    /\ \E found \in {IF connections = Nil THEN {}
                      ELSE Lookup(eventMaps[connections], handlers[c].user)} :
         handlers' = [x \in Conns |->
            IF x = c THEN [handlers[c] EXCEPT !.pc = "read",
                              !.failed = @ \/ (\E e \in found : e.conn = c /\ ~handlers[c].open)]
            ELSE IF \E e \in found : e.conn = x /\ ~handlers[x].open
                 THEN [handlers[x] EXCEPT !.failed = TRUE]
            ELSE handlers[x]]
    /\ UNCHANGED <<wsFrame, connections, eventMaps, mu>>

\* HandleWebSocket line 132: conn.Close() of the deferred cleanup
Close(c) ==
    /\ handlers[c].pc = "close"
    /\ handlers' = [handlers EXCEPT ![c].pc = "closed", ![c].open = FALSE]
    /\ UNCHANGED <<wsFrame, connections, eventMaps, mu>>

\* the client of connection c goes away
ClientGone(c) ==
    /\ handlers[c].pc \notin {"none", "closed"}
    /\ handlers[c].open
    /\ handlers' = [handlers EXCEPT ![c].open = FALSE]
    /\ UNCHANGED <<wsFrame, connections, eventMaps, mu>>

\* no splitter run
NoSplitRequest == [amount |-> 0, splitType |-> "", parts |-> <<>>]

NoSplitResult == [done |-> FALSE, err |-> FALSE, shares |-> <<>>]

\* no reducer run, no concurrent requests
Quiet ==
    /\ balances = <<>>
    /\ debtors = <<>>
    /\ creditors = <<>>
    /\ out = <<>>
    /\ rpc = "idle"
    /\ procs = NoProcs
    /\ readObs = NoRead
    /\ splitReq = NoSplitRequest
    /\ splitRes = NoSplitResult
    /\ NoSockets

\* --- the ledger: an event just created by A, requests served one by one

InitLedger ==
    /\ participants = <<"A">>
    /\ contributions = <<>>
    /\ expenses = <<>>
    /\ totalExpenses = ApprovedTotal(expenses)
    /\ settlements = {}
    /\ nextID = 1
    /\ now = 1
    /\ sortTies \in {"stable", "reversed"}
    /\ loopVar = "shared"    \* no range loop over pointers is run here
    /\ hist = NoCall
    /\ Quiet

\* amounts contributed to the event of the ledger
ContributionAmounts == {NewFromInt(90)}

NextLedger ==
    \/ \E u \in Users : JoinEvent(u)
    \/ \E u \in Users, a \in ContributionAmounts : AddContribution(u, a)
    \/ \E u \in Users : CreateExpense(u)
    \/ \E u \in Users, i \in 1..MaxExpenses, act \in {"approve", "reject"} :
          ReviewExpense(u, i, act)

SpecLedger == InitLedger /\ [][NextLedger]_vars

\* --- the settlement lifecycle: an event of A, B and C with at most one
\* expense on its books, requests served one by one

SeedParticipants == <<"A", "B", "C">>

\* the expense rows CreateExpense persists for these requests
SeedExpenses ==
    {ExpenseRow(u, a, "equal",
         calculateExpenseShares(a, "equal", <<>>, SeedParticipants).shares,
         SeedParticipants) : u \in {"A", "B"}, a \in Amounts}
    \cup
    {ExpenseRow("A", a, "custom",
         calculateExpenseShares(a, "custom", <<ExpenseParticipant("B", a, Missing, Missing)>>,
                                SeedParticipants).shares,
         SeedParticipants) : a \in Amounts}

Init ==
    /\ participants = SeedParticipants
    /\ contributions = <<>>
    /\ expenses \in {<<>>} \cup {<<e>> : e \in SeedExpenses}
    /\ totalExpenses = ApprovedTotal(expenses)
    /\ settlements = {}
    /\ nextID = 1
    /\ now = 1
    /\ sortTies \in {"stable", "reversed"}
    /\ loopVar = "shared"    \* no range loop over pointers is run here
    /\ hist = NoCall
    /\ Quiet

Next ==
    \/ \E u \in Users, a \in Amounts : AddContribution(u, a)
    \/ \E u \in Users, i \in 1..MaxExpenses, act \in {"approve", "reject"} :
          ReviewExpense(u, i, act)
    \/ CreateSettlements

Spec == Init /\ [][Next]_vars

\* --- the expenses of an event of A, B and C: submitted, updated, reviewed
\* and deleted, requests served one by one

InitExpense ==
    /\ participants = SeedParticipants
    /\ contributions = <<>>
    /\ expenses = <<>>
    /\ totalExpenses = ApprovedTotal(expenses)
    /\ settlements = {}
    /\ nextID = 1
    /\ now = 1
    /\ sortTies \in {"stable", "reversed"}
    /\ loopVar = "shared"    \* no range loop over pointers is run here
    /\ hist = NoCall
    /\ Quiet

NextExpense ==
    \/ \E u \in Users : CreateExpense(u)
    \/ \E u \in Users, i \in 1..MaxExpenses, a \in Amounts \cup {Missing} :
          UpdateExpense(u, i, a)
    \/ \E u \in Users, i \in 1..MaxExpenses, act \in {"approve", "reject"} :
          ReviewExpense(u, i, act)
    \/ \E u \in Users, i \in 1..MaxExpenses : DeleteExpense(u, i)

SpecExpense == InitExpense /\ [][NextExpense]_vars

\* --- one run of the splitters on a drawn request

\* what the fields of a request participant may carry: percentages (the
\* last two have a share of one unit that ends in a 5 past DivisionPrecision),
\* custom amounts and weights
Percentages ==
    {NewFromInt(100), NewFromInt(50), NewFromInt(25), NewFromInt(100) - 50, 50,
     NewFromInt(-50), NewFromInt(150)}

CustomShares ==
    Amounts \cup {NewFromInt(30), NewFromInt(60), NewFromInt(-30), NewFromInt(120)}

Weights == {NewFromInt(1), NewFromInt(2), Scale \div 2, NewFromInt(0), NewFromInt(-1)}

\* the i-th user of a drawn request
SplitUser(i) == ReduceUsers[i]

\* request participants carrying the field of one strategy
SplitParticipants(splitType) ==
    UNION {{[i \in 1..n |->
               ExpenseParticipant(SplitUser(i),
                   IF splitType = "custom" THEN f[i] ELSE Missing,
                   IF splitType = "percentage" THEN f[i] ELSE Missing,
                   IF splitType = "weighted" THEN f[i] ELSE Missing)] :
            f \in [1..n ->
                     IF splitType = "custom" THEN CustomShares \cup {Missing}
                     ELSE IF splitType = "percentage" THEN Percentages \cup {Missing}
                     ELSE IF splitType = "weighted" THEN Weights \cup {Missing}
                     ELSE {Missing}]} : n \in 1..MaxShares}

SplitRequests ==
    {[amount |-> a, splitType |-> t, parts |-> ps] :
        a \in Amounts, t \in {"equal"}, ps \in SplitParticipants("equal")}
    \cup {[amount |-> a, splitType |-> t, parts |-> ps] :
        a \in Amounts, t \in {"percentage"}, ps \in SplitParticipants("percentage")}
    \cup {[amount |-> a, splitType |-> t, parts |-> ps] :
        a \in Amounts, t \in {"custom"}, ps \in SplitParticipants("custom")}
    \cup {[amount |-> a, splitType |-> t, parts |-> ps] :
        a \in Amounts, t \in {"weighted"}, ps \in SplitParticipants("weighted")}

InitSplit ==
    /\ participants = SeedParticipants
    /\ contributions = <<>>
    /\ expenses = <<>>
    /\ totalExpenses = ApprovedTotal(expenses)
    /\ settlements = {}
    /\ nextID = 1
    /\ now = 1
    /\ sortTies = "stable"   \* nothing is sorted here
    /\ loopVar = "shared"    \* no range loop over pointers is run here
    /\ hist = NoCall
    /\ balances = <<>>
    /\ debtors = <<>>
    /\ creditors = <<>>
    /\ out = <<>>
    /\ rpc = "idle"
    /\ procs = NoProcs
    /\ readObs = NoRead
    /\ splitReq \in SplitRequests
    /\ splitRes = NoSplitResult
    /\ NoSockets

\* CreateExpense's call of calculateExpenseShares on the drawn request
CalculateShares ==
    /\ ~splitRes.done
    /\ \E r \in {calculateExpenseShares(splitReq.amount, splitReq.splitType,
                                        splitReq.parts, participants)} :
         splitRes' = [done |-> TRUE, err |-> r.err, shares |-> r.shares]
    /\ UNCHANGED <<ledgerVars, storeVars, buildVars, now, hist, reduceVars,
                   concVars, splitReq, wsVars>>

NextSplit == CalculateShares

SpecSplit == InitSplit /\ [][NextSplit]_vars

\* --- the settlements of an event whose ledger stays as it is: generation,
\* custom settlements and completions, requests served one by one

\* expenses of A: split equally among all, or all of it B's share
SettleSeeds == {e \in SeedExpenses : e.submittedBy = "A" /\ e.amount = NewFromInt(90)}

InitSettle ==
    /\ participants = SeedParticipants
    /\ contributions = <<>>
    /\ expenses \in {<<e>> : e \in SettleSeeds}
    /\ totalExpenses = ApprovedTotal(expenses)
    /\ settlements = {}
    /\ nextID = 1
    /\ now = 1
    /\ sortTies \in {"stable", "reversed"}
    /\ loopVar \in LoopVarSemantics
    /\ hist = NoCall
    /\ Quiet

NextSettle ==
    \/ CreateSettlements
    \/ \E u \in Accounts : CreateCustomSettlement(u)
    \/ \E id \in 1..MaxSettlementID, ref \in PaymentReferences :
          CompleteCall(id, ref)

SpecSettle == InitSettle /\ [][NextSettle]_vars

\* --- one CreateExpense request, drawn, on an event of A, B and C

\* request bodies: those of the splitter runs, and those without a
\* participant list
CreateRequests ==
    SplitRequests
    \cup {[amount |-> a, splitType |-> t, parts |-> <<>>] :
            a \in Amounts, t \in {"equal", "percentage", "custom", "weighted"}}

InitCreate ==
    /\ participants = SeedParticipants
    /\ contributions = <<>>
    /\ expenses \in {<<>>} \cup {<<e>> : e \in SettleSeeds}
    /\ totalExpenses = ApprovedTotal(expenses)
    /\ settlements = {}
    /\ nextID = 1
    /\ now = 1
    /\ sortTies = "stable"   \* nothing is sorted here
    /\ loopVar = "shared"    \* no range loop over pointers is run here
    /\ hist = NoCall
    /\ balances = <<>>
    /\ debtors = <<>>
    /\ creditors = <<>>
    /\ out = <<>>
    /\ rpc = "idle"
    /\ procs = NoProcs
    /\ readObs = NoRead
    /\ splitReq \in CreateRequests
    /\ splitRes = NoSplitResult
    /\ NoSockets

\* ExpenseController.CreateExpense of user u for the drawn request; the
\* splitter's answer and the code answered are kept
CreateExpenseDrawn(u) ==
    /\ IsParticipant(u)
    /\ ~splitRes.done
    /\ \E r \in {calculateExpenseShares(splitReq.amount, splitReq.splitType,
                                        splitReq.parts, participants)} :
       \E fp \in ExpenseFailPoints(Len(r.shares)) :
       \E res \in {CreateExpenseTx(u, splitReq.amount, splitReq.splitType, r, fp)} :
         /\ expenses' = res.db.expenses
         /\ totalExpenses' = res.db.total
         /\ splitRes' = [done |-> TRUE, err |-> r.err, shares |-> r.shares]
         /\ hist' = ServiceCall("createExpense", 0, res.code)
    /\ UNCHANGED <<participants, contributions, storeVars, buildVars, now,
                   reduceVars, concVars, splitReq, wsVars>>

NextCreate == \E u \in Users : CreateExpenseDrawn(u)

SpecCreate == InitCreate /\ [][NextCreate]_vars

\* --- websocket clients of the event: each connection's handler goroutine,
\* statement by statement

\* participants that open websocket connections
SocketUsers == {"A", "B"}

\* a handler just past the upgrade, about to call addConnection
NewHandler(u) == [NoHandler EXCEPT !.pc = "addLock", !.user = u, !.open = TRUE]

InitSockets ==
    /\ participants = SeedParticipants
    /\ contributions = <<>>
    /\ expenses = <<>>
    /\ totalExpenses = ApprovedTotal(expenses)
    /\ settlements = {}
    /\ nextID = 1
    /\ now = 1
    /\ sortTies = "stable"   \* nothing is sorted here
    /\ loopVar = "shared"    \* no range loop over pointers is run here
    /\ hist = NoCall
    /\ balances = <<>>
    /\ debtors = <<>>
    /\ creditors = <<>>
    /\ out = <<>>
    /\ rpc = "idle"
    /\ procs = NoProcs
    /\ readObs = NoRead
    /\ splitReq = NoSplitRequest
    /\ splitRes = NoSplitResult
    /\ notifications = <<>>
    /\ connections = Nil
    /\ eventMaps = [m \in Conns |-> {}]
    /\ mu = Unlocked
    /\ handlers \in {[c \in Conns |-> NewHandler(f[c])] : f \in [Conns -> SocketUsers]}

NextSockets ==
    \E c \in Conns :
        \/ AddLock(c)
        \/ AddWrite(c)
        \/ AddUnlock(c)
        \/ BroadcastRead(c)
        \/ BroadcastIterate(c)
        \/ RemoveLock(c)
        \/ RemoveDelete(c)
        \/ RemoveUnlock(c)
        \/ ReadMessage(c)
        \/ Pong(c)
        \/ Close(c)
        \/ ClientGone(c)

SpecSockets == InitSockets /\ [][NextSockets]_vars

\* --- one run of the reducer over a drawn balance list, statement by
\* statement

NetValues == {n * Scale : n \in (-MaxNet)..MaxNet}

\* the balance lists CalculateUserBalances hands over: the first k users,
\* each with some net balance
BalanceLists ==
    UNION {{[i \in 1..k |-> UserBalance(ReduceUsers[i],
                               IF f[i] > 0 THEN f[i] ELSE 0, 0, f[i])] :
              f \in [1..k -> NetValues]} : k \in 0..Len(ReduceUsers)}

InitReduce ==
    /\ participants = <<>>
    /\ contributions = <<>>
    /\ expenses = <<>>
    /\ totalExpenses = ApprovedTotal(expenses)
    /\ settlements = {}
    /\ nextID = 1
    /\ now = 1
    /\ sortTies \in {"stable", "reversed"}
    /\ loopVar = "shared"    \* no range loop over pointers is run here
    /\ hist = NoCall
    /\ balances \in BalanceLists
    /\ debtors = <<>>
    /\ creditors = <<>>
    /\ out = <<>>
    /\ rpc = "partition"
    /\ procs = NoProcs
    /\ readObs = NoRead
    /\ splitReq = NoSplitRequest
    /\ splitRes = NoSplitResult
    /\ NoSockets

\* "Separate debtors and creditors"
Partition ==
    /\ rpc = "partition"
    /\ debtors' = Debtors(balances)
    /\ creditors' = Creditors(balances)
    /\ rpc' = "sort"
    /\ UNCHANGED <<ledgerVars, storeVars, buildVars, now, hist, balances, out, concVars, splitVars, wsVars>>

\* the two sort.Slice calls
Sort ==
    /\ rpc = "sort"
    /\ debtors' = SortSlice(debtors, "owes", sortTies)
    /\ creditors' = SortSlice(creditors, "owed", sortTies)
    /\ rpc' = "loop"
    /\ UNCHANGED <<ledgerVars, storeVars, buildVars, now, hist, balances, out, concVars, splitVars, wsVars>>

\* one iteration of the for loop
Iterate ==
    /\ rpc = "loop"
    /\ LoopCond([d |-> debtors, c |-> creditors, o |-> out])
    /\ \E st \in {GreedyStep([d |-> debtors, c |-> creditors, o |-> out])} :
         /\ debtors' = st.d
         /\ creditors' = st.c
         /\ out' = st.o
    /\ UNCHANGED <<ledgerVars, storeVars, buildVars, now, hist, balances, rpc, concVars, splitVars, wsVars>>

\* the loop condition fails: return settlements
Return ==
    /\ rpc = "loop"
    /\ ~LoopCond([d |-> debtors, c |-> creditors, o |-> out])
    /\ rpc' = "done"
    /\ UNCHANGED <<ledgerVars, storeVars, buildVars, now, hist, balances, debtors,
                   creditors, out, concVars, splitVars, wsVars>>

NextReduce == Partition \/ Sort \/ Iterate \/ Return

SpecReduce == InitReduce /\ [][NextReduce]_vars

\* --- concurrent requests against the settlement service: the statements of
\* CreateSettlements of several requests interleave with each other and
\* with reads

Procs == {"p1", "p2"}

\* a request process: settlement is the row MarkSettlementCompleted read
\* (none: the empty set), done the ids it completed
IdleProc ==
    [pc |-> "idle", drafts |-> <<>>, i |-> 0, pre |-> {}, calls |-> 0,
     failed |-> FALSE, settlement |-> {}, done |-> {}]

\* the table a generation before the requests left behind
GeneratedBefore == InsertDrafts({}, Drafts, 1, Len(Drafts))

InitConc ==
    /\ participants = SeedParticipants
    /\ contributions = <<>>
    /\ expenses \in {<<e>> : e \in SeedExpenses}
    /\ totalExpenses = ApprovedTotal(expenses)
    /\ sortTies \in {"stable", "reversed"}
    /\ \/ settlements = {} /\ nextID = 1
       \/ settlements = GeneratedBefore /\ nextID = Len(Drafts) + 1
    /\ now = 1
    /\ loopVar = "shared"    \* no range loop over pointers is run here
    /\ hist = NoCall
    /\ balances = <<>>
    /\ debtors = <<>>
    /\ creditors = <<>>
    /\ out = <<>>
    /\ rpc = "idle"
    /\ procs = [p \in Procs |-> IdleProc]
    /\ readObs = NoRead
    /\ splitReq = NoSplitRequest
    /\ splitRes = NoSplitResult
    /\ NoSockets

InFlight == {p \in Procs : procs[p].pc # "idle"}

completeFrame == <<ledgerVars, buildVars, hist, reduceVars, splitVars, wsVars>>

concFrame == <<completeFrame, now>>

\* CreateSettlements line 159: clear the pending settlements
DeleteStep(p) ==
    /\ procs[p].pc = "idle"
    /\ procs[p].calls < MaxCalls
    /\ settlements' = DeletePending(settlements)
    /\ procs' = [procs EXCEPT ![p].pc = "generate",
                              ![p].pre = Pending(settlements)]
    /\ UNCHANGED <<nextID, readObs, concFrame>>

\* CreateSettlements line 163: GenerateOptimalSettlements, which may fail
GenerateStep(p) ==
    /\ procs[p].pc = "generate"
    /\ \/ procs' = [procs EXCEPT ![p].pc = "insert", ![p].drafts = Drafts,
                                 ![p].i = 1]
       \/ procs' = [procs EXCEPT ![p].pc = "idle", ![p].failed = TRUE,
                                 ![p].calls = @ + 1]
    /\ UNCHANGED <<storeVars, readObs, concFrame>>

\* CreateSettlements line 173: one DB.Create of the loop, which may fail
InsertStep(p) ==
    /\ procs[p].pc = "insert"
    /\ procs[p].i <= Len(procs[p].drafts)
    /\ \/ /\ nextID <= MaxSettlementID
          /\ settlements' = CreateRow(settlements, nextID, procs[p].drafts[procs[p].i])
          /\ nextID' = nextID + 1
          /\ procs' = [procs EXCEPT ![p].i = @ + 1]
       \/ /\ procs' = [procs EXCEPT ![p].pc = "idle", ![p].failed = TRUE,
                                    ![p].calls = @ + 1]
          /\ UNCHANGED storeVars
    /\ UNCHANGED <<readObs, concFrame>>

\* CreateSettlements line 184: load the pending settlements and return
LoadStep(p) ==
    /\ procs[p].pc = "insert"
    /\ procs[p].i > Len(procs[p].drafts)
    /\ \/ procs' = [procs EXCEPT ![p].pc = "idle", ![p].calls = @ + 1]
       \/ procs' = [procs EXCEPT ![p].pc = "idle", ![p].failed = TRUE,
                                 ![p].calls = @ + 1]
    /\ UNCHANGED <<storeVars, readObs, concFrame>>

\* MarkSettlementCompleted lines 222-228: read the row and check its status
CompleteReadStep(p, id) ==
    /\ procs[p].pc = "idle"
    /\ procs[p].calls < MaxCalls
    /\ IF First(settlements, id) = {}
          \/ NotPending(CHOOSE r \in First(settlements, id) : TRUE)
       THEN procs' = [procs EXCEPT ![p].failed = TRUE, ![p].calls = @ + 1]
       ELSE procs' = [procs EXCEPT ![p].pc = "update",
                                   ![p].settlement = First(settlements, id)]
    /\ UNCHANGED <<storeVars, readObs, concFrame>>

\* MarkSettlementCompleted lines 231-241: update the row by its primary key
\* and return; the process's name serves as its payment reference
CompleteUpdateStep(p) ==
    /\ procs[p].pc = "update"
    /\ \E r \in procs[p].settlement :
         /\ settlements' = Updates(settlements, r, p, now)
         /\ procs' = [procs EXCEPT ![p].pc = "idle", ![p].calls = @ + 1,
                                   ![p].settlement = {},
                                   ![p].done = @ \cup {r.id}]
    /\ now' = now + 1
    /\ UNCHANGED <<nextID, readObs, completeFrame>>

\* the requests inside CreateSettlements
Generating == {p \in Procs : procs[p].pc \in {"generate", "insert"}}

\* SettlementService.GetEventSettlements: one query; with it, whether a
\* single CreateSettlements, and no other request, was under way and what
\* was pending before it
GetEventSettlements ==
    /\ \E during \in {Cardinality(InFlight) = 1 /\ Generating = InFlight} :
         readObs' = [seen |-> TRUE, rows |-> settlements,
                     during |-> during,
                     pre |-> IF during
                             THEN procs[CHOOSE p \in InFlight : TRUE].pre
                             ELSE {}]
    /\ UNCHANGED <<storeVars, procs, concFrame>>

NextConc ==
    \/ \E p \in Procs : DeleteStep(p)
    \/ \E p \in Procs : GenerateStep(p)
    \/ \E p \in Procs : InsertStep(p)
    \/ \E p \in Procs : LoadStep(p)
    \/ \E p \in Procs, id \in 1..MaxSettlementID : CompleteReadStep(p, id)
    \/ \E p \in Procs : CompleteUpdateStep(p)
    \/ GetEventSettlements

SpecConc == InitConc /\ [][NextConc]_vars

\* --- complete-settlement requests through the router, served one by one,
\* after a generation

\* text is a sequence of characters; these are the decimal digits
Digits == <<"0", "1", "2", "3", "4", "5", "6", "7", "8", "9">>

\* the number a text of digits denotes
RECURSIVE NumberOf(_)
NumberOf(s) ==
    IF s = <<>> THEN 0
    ELSE Len(Digits) * NumberOf(SubSeq(s, 1, Len(s) - 1))
           + (CHOOSE k \in 1..Len(Digits) : Digits[k] = s[Len(s)]) - 1

\* strconv.ParseUint(s, 10, 32): an error for the empty text and for a text
\* with a character that is no digit
ParseUint(s) ==
    IF s = <<>> \/ \E i \in 1..Len(s) : s[i] \notin Range(Digits)
    THEN [err |-> TRUE, value |-> 0]
    ELSE [err |-> FALSE, value |-> NumberOf(s)]

\* the route main registers for CompleteSettlement,
\* POST /settlements/:eventId/complete: the parameters the router binds
\* when a request's path carries segment in the parameter's place
CompleteRoute(segment) == {[key |-> "eventId", value |-> segment]}

\* gin.Context.Param: the value bound to key, the empty text when none is
Param(params, key) ==
    IF \E b \in params : b.key = key
    THEN (CHOOSE b \in params : b.key = key).value
    ELSE <<>>

\* a CompleteSettlement request of user with the path segment and the
\* payment reference ref, answered with code ("" for 200)
RequestCall(user, segment, ref, code) ==
    [op |-> "completeRequest", ok |-> code = "", at |-> "none", pre |-> {},
     result |-> {}, again |-> FALSE, first |-> {}, id |-> 0, err |-> code,
     req |-> NoRequest, user |-> user, segment |-> segment, ref |-> ref]

\* SettlementController.CompleteSettlement behind its route; every user is
\* authenticated by the middleware of the protected group
CompleteSettlement(user, segment, ref) ==
    /\ \E parsed \in {ParseUint(Param(CompleteRoute(segment), "id"))} :
         IF parsed.err
         THEN /\ hist' = RequestCall(user, segment, ref, "INVALID_SETTLEMENT_ID")
              /\ UNCHANGED <<settlements, now>>
         ELSE IF ref = ""
         THEN /\ hist' = RequestCall(user, segment, ref, "INVALID_REQUEST")
              /\ UNCHANGED <<settlements, now>>
         ELSE IF First(settlements, parsed.value) = {}
         THEN /\ hist' = RequestCall(user, segment, ref, "SETTLEMENT_NOT_FOUND")
              /\ UNCHANGED <<settlements, now>>
         ELSE IF \A x \in First(settlements, parsed.value) :
                    x.from # user /\ x.to # user
         THEN /\ hist' = RequestCall(user, segment, ref, "INSUFFICIENT_PERMISSIONS")
              /\ UNCHANGED <<settlements, now>>
         ELSE \E r \in {MarkSettlementCompleted(settlements, parsed.value, ref, now)} :
                /\ r.err = "" => now <= MaxCompletions
                /\ settlements' = r.rows
                /\ now' = IF r.err = "" THEN now + 1 ELSE now
                /\ hist' = RequestCall(user, segment, ref,
                              IF r.err = "" THEN "" ELSE "COMPLETE_SETTLEMENT_ERROR")
    /\ UNCHANGED <<ledgerVars, nextID, buildVars, reduceVars, concVars, splitVars, wsVars>>

InitRoutes ==
    /\ participants = SeedParticipants
    /\ contributions = <<>>
    /\ expenses \in {<<e>> : e \in SeedExpenses}
    /\ totalExpenses = ApprovedTotal(expenses)
    /\ sortTies \in {"stable", "reversed"}
    /\ settlements = GeneratedBefore
    /\ nextID = Len(Drafts) + 1
    /\ now = 1
    /\ loopVar = "shared"    \* no range loop over pointers is run here
    /\ hist = NoCall
    /\ Quiet

\* the path carries a settlement id or a text that is no number; the body
\* may lack its payment_reference ("")
NextRoutes ==
    \E user \in Accounts,
       segment \in {<<Digits[d + 1]>> : d \in 1..MaxSettlementID} \cup {<<"x">>},
       ref \in PaymentReferences \cup {""} :
        CompleteSettlement(user, segment, ref)

SpecRoutes == InitRoutes /\ [][NextRoutes]_vars

\* ------------------------------------------------------------------------
\* Properties
\* ------------------------------------------------------------------------

MaxOf(a, b) == IF a >= b THEN a ELSE b

\* the balances of the ledger as it stands
Balances == CalculateUserBalances(participants, contributions, expenses)

TotalOwes(bals) == SumSeq([i \in 1..Len(bals) |-> bals[i].owes])

TotalOwed(bals) == SumSeq([i \in 1..Len(bals) |-> bals[i].owed])

\* what the drafts ds make user u pay, and what they make u receive
PaidBy(ds, u) ==
    SumSeq([i \in 1..Len(ds) |-> IF ds[i].from = u THEN ds[i].amount ELSE 0])

PaidTo(ds, u) ==
    SumSeq([i \in 1..Len(ds) |-> IF ds[i].to = u THEN ds[i].amount ELSE 0])

\* C1: a CreateSettlements call that failed at the balance read, at the
\* event lookup or at an insert leaves the pending settlements of the event
\* exactly as they were before the call.
C1_FailedCallKeepsPending ==
    (hist.op = "generate" /\ hist.at \in {"balances", "event", "insert"})
    => Pending(settlements) = hist.pre

\* every concurrent request has returned, each was a CreateSettlements call
\* and none failed, one at least was made
Quiescent ==
    /\ \A p \in Procs : procs[p].pc = "idle" /\ ~procs[p].failed
                          /\ procs[p].done = {}
    /\ \E p \in Procs : procs[p].calls > 0

\* C2: once concurrent CreateSettlements calls for the event have all
\* returned successfully, the pending settlements are the output of one
\* reduction: every instruction of it once, and nothing else.
C2_SerializablePerEvent ==
    Quiescent => Instructions(Pending(settlements)) = DraftInstructions(Drafts)

\* C3: a read made while one CreateSettlements call is under way returns
\* either all the settlements pending before that call or all those
\* pending after it, never something in between.
C3_NoTornRead ==
    (/\ readObs.seen
     /\ readObs.during
     /\ \A p \in Procs : ~procs[p].failed)
    => \E got \in {Instructions(Pending(readObs.rows))} :
          \/ got = Instructions(readObs.pre)
          \/ got = DraftInstructions(Drafts)

\* C4: a second successful CreateSettlements call, made right after a first
\* one with no ledger change in between, returns the instructions the first
\* returned, and the pending rows afterwards are one generation's worth.
C4_IdempotentRegeneration ==
    (hist.op = "generate" /\ hist.ok /\ hist.again)
    => /\ Instructions(hist.result) = Instructions(hist.first)
       /\ Instructions(Pending(settlements)) = Instructions(hist.first)
       /\ Cardinality(Pending(settlements)) = Cardinality(hist.first)

\* two calls in a row that each returned two instructions
C4_Witness ==
    /\ hist.op = "generate" /\ hist.ok /\ hist.again
    /\ Cardinality(hist.first) = 2
    /\ Cardinality(hist.result) = 2

\* every counted expense is split exactly
ExactShares ==
    \A i \in 1..Len(expenses) :
        Counted(expenses[i]) =>
            SumSeq([j \in 1..Len(expenses[i].shares) |->
                       expenses[i].shares[j].amount]) = expenses[i].amount

\* C5: when every counted expense is split exactly, what the debtors owe
\* in total is what the creditors are owed in total.
C5_BalanceConservation ==
    ExactShares =>
        \E bals \in {Balances} : TotalOwes(bals) = TotalOwed(bals)

\* the ledger of the scenario: A, B and C; A contributed 90; one approved
\* expense of 90 by A, split equally, 30 each
ScenarioLedger ==
    /\ Range(participants) = {"A", "B", "C"}
    /\ contributions = <<[user |-> "A", amount |-> 90 * Scale]>>
    /\ Len(expenses) = 1
    /\ expenses[1].submittedBy = "A"
    /\ expenses[1].amount = 90 * Scale
    /\ expenses[1].status = "approved"
    /\ expenses[1].splitType = "equal"
    /\ Len(expenses[1].shares) = 3
    /\ \A u \in {"A", "B", "C"} : ShareOf(expenses[1], u) = 30 * Scale

NetOf(bals, u) ==
    SumSeq([i \in 1..Len(bals) |-> IF bals[i].user = u THEN bals[i].net ELSE 0])

\* C6: in the scenario A's net balance is 60, B's and C's are -30, and the
\* reducer emits exactly B -> A 30 and C -> A 30.
C6_ConcreteScenario ==
    ScenarioLedger =>
        \E bals \in {Balances} :
            /\ NetOf(bals, "A") = 60 * Scale
            /\ NetOf(bals, "B") = -30 * Scale
            /\ NetOf(bals, "C") = -30 * Scale
            /\ \E ds \in {GenerateOptimalSettlements(bals, sortTies)} :
                  /\ Len(ds) = 2
                  /\ {Triple(ds[i]) : i \in 1..Len(ds)} =
                        {<<"B", "A", 30 * Scale>>, <<"C", "A", 30 * Scale>>}

\* C7: the drafts make every debtor pay exactly what the debtor owes and
\* every creditor receive exactly what the creditor is owed.
C7_TotalsMatchBalances ==
    \E bals \in {Balances} :
    \E ds \in {GenerateOptimalSettlements(bals, sortTies)} :
        \A i \in 1..Len(bals) :
            /\ bals[i].net < 0 => PaidBy(ds, bals[i].user) = bals[i].owes
            /\ bals[i].net > 0 => PaidTo(ds, bals[i].user) = bals[i].owed

\* C8: over the balances of the ledger the greedy loop ends, and it ends
\* with no debtor and no creditor left.
C8_BothListsEmpty ==
    \E st \in {ReduceFinal(Balances, sortTies)} :
        /\ ~LoopCond(st)
        /\ st.d = <<>>
        /\ st.c = <<>>

\* debtors and creditors of the balance list of the reducer run
NumDebtors == Cardinality({i \in 1..Len(balances) : balances[i].net < 0})

NumCreditors == Cardinality({i \in 1..Len(balances) : balances[i].net > 0})

\* C9: with a debtor and a creditor present, a reduction emits at most
\* min(|debtors|, |creditors|) settlements and at least
\* max(|debtors|, |creditors|) - 1.
C9_CountBounds ==
    (rpc = "done" /\ NumDebtors >= 1 /\ NumCreditors >= 1)
    => /\ Len(out) <= MinInt(NumDebtors, NumCreditors)
       /\ Len(out) >= MaxOf(NumDebtors, NumCreditors) - 1

\* C9 as amended: with a debtor and a creditor present, a reduction never
\* emits more than |debtors| + |creditors| - 1 settlements, and when it
\* returns it has emitted at least min(|debtors|, |creditors|), and at
\* least max(|debtors|, |creditors|) if total debt equals total credit.
C9_CountBoundsAmended ==
    (NumDebtors >= 1 /\ NumCreditors >= 1)
    => /\ Len(out) <= NumDebtors + NumCreditors - 1
       /\ rpc = "done" => Len(out) >= MinInt(NumDebtors, NumCreditors)
       /\ (rpc = "done" /\ TotalOwes(balances) = TotalOwed(balances))
            => Len(out) >= MaxOf(NumDebtors, NumCreditors)

\* a finished reduction of two debtors and one creditor with two settlements
C9_Witness ==
    /\ rpc = "done"
    /\ NumDebtors = 2
    /\ NumCreditors = 1
    /\ Len(out) = 2

\* position of user u in the balance list
PosIn(bals, u) == CHOOSE i \in 1..Len(bals) : bals[i].user = u

\* s is descending by key, equal keys in balance-list order
StableDescending(s, key) ==
    \A i, j \in 1..Len(s) :
        i < j => \/ s[i][key] > s[j][key]
                 \/ /\ s[i][key] = s[j][key]
                    /\ PosIn(balances, s[i].user) < PosIn(balances, s[j].user)

Completed(S) == {r \in S : r.status = "completed"}

\* C11: a completed settlement stays as it is, row for row, through every
\* later CreateSettlements, CreateCustomSettlement and
\* MarkSettlementCompleted call, and MarkSettlementCompleted on it fails with "settlement is not
\* pending".
C11_CompletedIsTerminal ==
    [][/\ \A r \in Completed(settlements) : r \in settlements'
       /\ \A r \in Completed(settlements) :
            (/\ hist'.op = "complete"
             /\ hist'.id = r.id)
            => hist'.err = "settlement is not pending"]_vars

\* a completion was refused on a settlement completed earlier, after a
\* later generation
C11_Witness ==
    /\ hist.op = "complete"
    /\ hist.err = "settlement is not pending"
    /\ \E r \in Completed(settlements) : r.id = hist.id /\ r.id < nextID - 1

\* C12: of the MarkSettlementCompleted calls that interleave on one pending
\* settlement only one succeeds, so no two requests complete the same id.
C12_CompletedOnce ==
    \A p, q \in Procs : p # q => procs[p].done \cap procs[q].done = {}

\* the balance of user u itself among bals (u a participant)
OwnBalance(bals, u) == CHOOSE x \in Range(bals) : x.user = u

\* the request req passes the checks the custom settlement is to pass, each
\* against the balance of the user it names
ValidCustom(req) ==
    /\ req.from \in Range(participants)
    /\ req.to \in Range(participants)
    /\ req.amount > 0
    /\ \E bals \in {Balances} :
         /\ OwnBalance(bals, req.from).net < 0
         /\ req.amount <= OwnBalance(bals, req.from).owes
         /\ OwnBalance(bals, req.to).net > 0
         /\ req.amount <= OwnBalance(bals, req.to).owed

\* C13: CreateCustomSettlement succeeds exactly when both users are
\* participants, the amount is positive, the payer's own balance is negative
\* and covers the amount, and the payee's own balance is positive and covers
\* the amount.
C13_CustomValidation ==
    hist.op = "custom" => (hist.ok <=> ValidCustom(hist.req))

\* C14: a successful CreateCustomSettlement adds one pending row with the
\* payer, payee and amount of the request under a fresh id and leaves every
\* other row as it was; a refused one leaves the table as it was.
C14_CustomFrame ==
    [][hist'.op = "custom" =>
         IF hist'.ok
         THEN /\ First(settlements, hist'.id) = {}
              /\ settlements' = settlements \cup
                    {[id |-> hist'.id, from |-> hist'.req.from,
                      to |-> hist'.req.to, amount |-> hist'.req.amount,
                      status |-> "pending", ref |-> "", settledAt |-> NoTime]}
         ELSE settlements' = settlements]_vars

\* a custom settlement was created next to a completed row
C14_Witness ==
    /\ hist.op = "custom" /\ hist.ok
    /\ Completed(settlements) # {}
    /\ Cardinality(Pending(settlements)) = 1

RECURSIVE SumAt(_, _)
SumAt(s, I) ==
    IF I = {} THEN 0
    ELSE LET i == CHOOSE j \in I : TRUE IN s[i].amount + SumAt(s, I \ {i})

\* the pending and approved expenses of the ledger, by index
Live == {i \in 1..Len(expenses) : expenses[i].status \in {"pending", "approved"}}

\* what user u is to bear of the pending and approved expenses
SharesOf(u) ==
    SumSeq([i \in 1..Len(expenses) |->
        IF i \in Live
        THEN SumAt(expenses[i].shares,
                   {j \in 1..Len(expenses[i].shares) : expenses[i].shares[j].user = u})
        ELSE 0])

\* C16: CalculateUserBalances returns one balance per participant, in
\* order, with contributed the sum of the user's contributions, spent the
\* sum of the user's pending and approved expenses, net = contributed +
\* spent - the user's shares of those expenses, owes = |net| if negative
\* and owed = net if positive; for no participants it returns the empty
\* list.
C16_BalanceShape ==
    /\ CalculateUserBalances(<<>>, contributions, expenses) = <<>>
    /\ \E bals \in {Balances} :
         /\ Len(bals) = Len(participants)
         /\ \A i \in 1..Len(bals) :
              LET u == participants[i]
                  x == bals[i]
              IN /\ x.user = u
                 /\ x.contributed =
                      SumAt(contributions,
                            {j \in 1..Len(contributions) : contributions[j].user = u})
                 /\ x.spent =
                      SumAt(expenses, {j \in Live : expenses[j].submittedBy = u})
                 /\ x.net = x.contributed + x.spent - SharesOf(u)
                 /\ x.owes = (IF x.net < 0 THEN 0 - x.net ELSE 0)
                 /\ x.owed = (IF x.net > 0 THEN x.net ELSE 0)
                 /\ x.owes = 0 \/ x.owed = 0

\* three participants, a contribution and a pending expense on the books,
\* a debtor and a creditor among the balances
C16_Witness ==
    /\ Len(participants) = 3
    /\ contributions # <<>>
    /\ \E i \in Live : expenses[i].status = "pending" /\ expenses[i].amount > 0
    /\ \E bals \in {Balances} :
         /\ \E i \in 1..Len(bals) : bals[i].owes > 0
         /\ \E i \in 1..Len(bals) : bals[i].owed > 0

\* C17: an expense that ReviewExpense rejected counts for nothing: the
\* balances are those of the ledger without that expense and its shares.
C17_RejectedHasNoEffect ==
    \A i \in 1..Len(expenses) :
        i \notin Live =>
            Balances = CalculateUserBalances(participants, contributions,
                                             RemoveAt(expenses, i))

\* a rejected expense with shares for several users on the books
C17_Witness ==
    \E i \in 1..Len(expenses) :
        /\ i \notin Live
        /\ expenses[i].amount > 0
        /\ Len(expenses[i].shares) >= 2

\* the currency's minor unit, 0.01
SmallestUnit == Scale \div 100

\* C18: whatever CreateExpense, UpdateExpense, ReviewExpense and
\* DeleteExpense calls were served, the shares of every expense on the
\* books sum to its amount, up to one minor unit per share.
C18_ShareSum ==
    \A i \in 1..Len(expenses) :
        \E sum \in {SumAt(expenses[i].shares, 1..Len(expenses[i].shares))} :
            AbsInt(sum - expenses[i].amount)
                <= Len(expenses[i].shares) * SmallestUnit

\* a splitter run of one of the strategies S returned shares
Split(S) ==
    /\ splitRes.done
    /\ ~splitRes.err
    /\ splitReq.splitType \in S

\* the sums over the returned shares
SumShareAmounts == SumAt(splitRes.shares, 1..Len(splitRes.shares))

SumSharePercentages ==
    SumSeq([i \in 1..Len(splitRes.shares) |-> splitRes.shares[i].percentage])

\* C19: whenever the percentage or the custom splitter accepts a request,
\* the amounts of the returned shares sum to the expense's amount exactly and
\* their percentages sum to 100 exactly.
C19_SplitterExactness ==
    Split({"percentage", "custom"}) =>
        /\ SumShareAmounts = splitReq.amount
        /\ SumSharePercentages = NewFromInt(100)

\* C20: whenever the equal or the weighted splitter returns shares for n
\* participants (with positive weights), the amounts of the shares sum to the
\* expense's amount up to n minor units.
C20_SplitterTolerance ==
    (/\ Split({"equal", "weighted"})
     /\ \A i \in 1..Len(splitReq.parts) :
            splitReq.splitType = "weighted" => splitReq.parts[i].weight > 0)
    => AbsInt(SumShareAmounts - splitReq.amount)
           <= Len(splitRes.shares) * SmallestUnit

\* a weighted split over three participants whose rounded shares do not sum
\* to the amount
C20_Witness ==
    /\ Split({"weighted"})
    /\ Len(splitRes.shares) = 3
    /\ SumShareAmounts # splitReq.amount

\* C21: a CreateExpense request that is answered with an error (the splitter
\* rejected it, or an insert, the totals update or the commit failed) leaves
\* the expenses, their shares and the event's total_expenses as they were; a
\* request answered with success adds one expense carrying all the shares the
\* splitter returned, and the splitter rejecting it always means an error.
C21_AtomicCreate ==
    [][hist'.op = "createExpense" =>
         /\ splitRes'.err => ~hist'.ok
         /\ IF hist'.ok
            THEN /\ Len(expenses') = Len(expenses) + 1
                 /\ SubSeq(expenses', 1, Len(expenses)) = expenses
                 /\ expenses'[Len(expenses')].shares = splitRes'.shares
                 /\ expenses'[Len(expenses')].amount = splitReq.amount
                 /\ totalExpenses' = ApprovedTotal(expenses')
            ELSE /\ expenses' = expenses
                 /\ totalExpenses' = totalExpenses]_vars

\* the third share insert of an approved expense failed, next to an expense
\* stored before
C21_Witness ==
    /\ hist.op = "createExpense"
    /\ hist.err = "SHARE_CREATION_ERROR"
    /\ Len(splitRes.shares) = 3
    /\ Len(expenses) = 1

\* a request participant carries a negative percentage, a negative custom
\* amount or a weight that is not positive
BadSign(p) ==
    \/ p.percentage # Missing /\ p.percentage < 0
    \/ p.amount # Missing /\ p.amount < 0
    \/ p.weight # Missing /\ p.weight <= 0

\* C22: every share a splitter returns has a percentage between 0 and 100
\* and an amount that is not negative, and a request with a negative
\* percentage, a negative custom amount or a non-positive weight is answered
\* with an error.
C22_ShareRanges ==
    splitRes.done =>
        /\ \A i \in 1..Len(splitRes.shares) :
              /\ splitRes.shares[i].percentage >= 0
              /\ splitRes.shares[i].percentage <= NewFromInt(100)
              /\ splitRes.shares[i].amount >= 0
        /\ (\E i \in 1..Len(splitReq.parts) : BadSign(splitReq.parts[i]))
              => splitRes.err

\* the kind of notification that belongs to a settlement operation
NotificationKind(op) ==
    IF op = "complete" THEN "settlement_completed" ELSE "settlement_created"

\* C23: every successful settlement generation, custom settlement creation
\* and settlement completion hands exactly one notification of its kind to
\* the websocket controller, and a failed one hands it none.
C23_NotifiesOnce ==
    [][hist'.op \in {"generate", "custom", "complete"} =>
         IF hist'.ok
         THEN /\ Len(notifications') = Len(notifications) + 1
              /\ notifications'[Len(notifications')].type \in
                    {NotificationKind(hist'.op), "balance_updated"}
         ELSE notifications' = notifications]_vars

\* goroutine c is about to write the event's entry of wsc.connections or an
\* entry of the inner map m
Writes(c, m) ==
    \/ handlers[c].pc = "addWrite" /\ (connections = m \/ connections = Nil)
    \/ handlers[c].pc = "rmDelete" /\ connections = m /\ connections # Nil

\* goroutine c is inside the range loop over the inner map m, or about to
\* look an entry up; neither holds the lock
ReadsUnlocked(c, m) ==
    \/ handlers[c].pc = "iter" /\ handlers[c].ref = m
    \/ handlers[c].pc = "pong" /\ (connections = m \/ connections = Nil)

\* C24: the registry is only read, iterated and changed under its lock: no
\* goroutine is iterating an event's connection map, or reading it, while
\* another goroutine is adding or removing an entry of that map.
C24_RegistryLocked ==
    \A c, d \in Conns, m \in Conns :
        c # d => ~(Writes(c, m) /\ ReadsUnlocked(d, m))

\* the registry's entry of connection c's user holds c
Registered(c) ==
    /\ connections # Nil
    /\ [user |-> handlers[c].user, conn |-> c] \in eventMaps[connections]

\* the registry has an entry for user u
HasEntry(u) == connections # Nil /\ Lookup(eventMaps[connections], u) # {}

\* C29: the registry entry of an open connection that never failed a write
\* is not deleted; in particular the cleanup of an earlier connection of the
\* same user leaves it in place.
C29_StaysRegistered ==
    [][\A c \in Conns :
          (/\ Registered(c)
           /\ handlers[c].open
           /\ ~handlers[c].failed
           /\ handlers'[c].open)
          => HasEntry(handlers[c].user)']_vars

\* the balances as the ledger alone gives them
LedgerBalances ==
    [i \in 1..Len(participants) |->
        UserBalance(participants[i],
                    TotalContributions(contributions, participants[i]),
                    TotalExpenses(expenses, participants[i]),
                    TotalContributions(contributions, participants[i])
                      + TotalExpenses(expenses, participants[i])
                      - TotalEventExpenses(expenses, participants[i]))]

\* C25: whatever settlements were generated, created or completed, the
\* balances are those the ledger alone gives, and a successful generation
\* has emitted the reduction of those balances; so a generation that follows
\* the completion of all pending settlements emits the same instructions
\* again.
C25_BalancesIgnoreSettlements ==
    /\ Balances = LedgerBalances
    /\ (hist.op = "generate" /\ hist.ok)
         => Instructions(hist.result)
              = DraftInstructions(GenerateOptimalSettlements(LedgerBalances, sortTies))

\* a generation that found no pending row, only completed ones, and emitted
\* the instructions of the completed rows again
C25_Witness ==
    /\ hist.op = "generate" /\ hist.ok
    /\ hist.pre = {}
    /\ Completed(settlements) # {}
    /\ Instructions(hist.result) = Instructions(Completed(settlements))

\* the pending amounts of S that the rows chosen by the field name f (from
\* or to) of user u add up to
RECURSIVE PendingSum(_, _, _)
PendingSum(S, f, u) ==
    IF Pending(S) = {} THEN 0
    ELSE LET r == CHOOSE x \in Pending(S) : TRUE
         IN (IF r[f] = u THEN r.amount ELSE 0) + PendingSum(S \ {r}, f, u)

C27_CompletedRowExists ==
    [][\A p \in Procs :
         \A id \in procs'[p].done \ procs[p].done :
           \E r \in settlements' :
             /\ r.id = id
             /\ r.status = "completed"
             /\ r.ref = p
             /\ r.settledAt = now]_vars

\* C28: every share of every expense CreateExpense stored is the share of
\* a participant of the event, so the shares of an expense held by
\* participants, the only ones CalculateUserBalances counts, add up to all
\* the shares of the expense.
C28_SharesOfParticipants ==
    \A i \in 1..Len(expenses) :
      /\ \A j \in 1..Len(expenses[i].shares) :
            expenses[i].shares[j].user \in Range(participants)
      /\ SumAt(expenses[i].shares,
               {j \in 1..Len(expenses[i].shares) :
                  expenses[i].shares[j].user \in Range(participants)})
           = SumAt(expenses[i].shares, 1..Len(expenses[i].shares))

\* C30: a complete-settlement request through the registered route whose
\* path names a pending settlement and whose body carries a payment
\* reference is answered with success and leaves that settlement completed
\* with the reference when the user is its payer or payee, and is refused
\* and leaves the settlements as they were when the user is neither.
C30_CompleteRouteReaches ==
    [][hist'.op = "completeRequest" /\ hist'.ref # ""
         => \A r \in Pending(settlements) :
              <<Digits[r.id + 1]>> = hist'.segment
                => IF hist'.user \in {r.from, r.to}
                   THEN /\ hist'.ok
                        /\ [r EXCEPT !.status = "completed", !.ref = hist'.ref,
                                     !.settledAt = now] \in settlements'
                   ELSE /\ ~hist'.ok
                        /\ settlements' = settlements]_vars

====
